---- MODULE Spec2Model ----
(***************************************************************************)
(* MicroPop: the popup registry and the per-popup visibility state machine *)
(* of the three revisions of the library kept in the repository:           *)
(*   0.1.0  src/index.js                                                   *)
(*   0.1.1  src/unnamed/part_001                                           *)
(*   0.2.0  src/unnamed/part_000  (roles, trigger listeners, init)         *)
(* The host document is a fixed set of elements.  An attribute value is a  *)
(* string, "" standing for an absent attribute (getAttribute gives null,   *)
(* which the code only ever tests for truthiness or compares with 'true'   *)
(* and 'false').  A whitespace-separated token list is kept as the         *)
(* sequence of its tokens.                                                 *)
(***************************************************************************)
EXTENDS Integers, Sequences, FiniteSets, TLC

VARIABLES
  version,    \* the revision of the library that is loaded
  markup,     \* per element: the trigger declaration and the role targets
  dom,        \* per element: the attributes and classes the library writes
  insts,      \* the Popup instances constructed: popup, triggers, options
  popups,     \* the registry: identifier -> index of the instance
  listeners,  \* the event listeners attached to triggers, in order
  genCount,   \* _generatedIdCount
  last        \* the last public call and the error it raised

vars == <<version, markup, dom, insts, popups, listeners, genCount, last>>

----------------------------------------------------------------------------
(* Bounds of the model *)

\* number of Popup instances the registry may hold
MaxPopups == 2
----------------------------------------------------------------------------
(* The host document *)

Versions == {"0.1.0", "0.1.1", "0.2.0"}

\* elements, in document order
DocOrder == <<"b0", "b1", "tip1", "dlg1", "anon">>
Elems == {DocOrder[k] : k \in 1..Len(DocOrder)}
NoElem == "NOELEM"

\* the native id property of an element ("" = none)
NativeId(e) ==
  CASE e = "tip1" -> "tip1"
    [] e = "dlg1" -> "dlg1"
    [] OTHER -> ""

\* document.getElementById
GetElementById(id) ==
  IF id # "" /\ \E e \in Elems : NativeId(e) = id
  THEN CHOOSE e \in Elems : NativeId(e) = id
  ELSE NoElem

\* property names every plain object inherits from Object.prototype
InheritedKeys == {"constructor"}

\* options (part_000:13-20); init is only modelled with an empty config
DefaultOpenClass == "is-open"

\* options.generateId, the counter already advanced to n
GenerateId(n) == "micropop-" \o ToString(n)

\* role tokens that occur in the markup
RoleTokens == {"tooltip", "dialog", "menu"}

\* trigger.getAttribute(options.libraryAttribute + '-' + role): the
\* role-namespaced attribute; 'data-micropop-id' is also the identifier
\* attribute
RoleTarget(m, e, role) ==
  IF role \in RoleTokens THEN markup[e].target[role]
  ELSE IF role = "id" THEN m.dom[e].ident
  ELSE ""

\* attr.split(' ')[0]: the first token, '' for the empty attribute
FirstToken(decl) == IF decl = <<>> THEN "" ELSE decl[1]

----------------------------------------------------------------------------
(* Values passed as a popup reference: a string, an element or neither *)

StrRef(s) == [k |-> "str", v |-> s]
ElRef(e) == [k |-> "el", v |-> e]
NilRef == [k |-> "nil", v |-> ""]

\* !popup
Falsy(r) == r.k = "nil" \/ (r.k = "str" /\ r.v = "")

\* the property key a value is converted to in popups[targetId]
KeyOf(id) == IF id.k = "nil" THEN "null" ELSE id.v

\* the machine state the operations transform
Machine ==
  [dom |-> dom, insts |-> insts, popups |-> popups,
   listeners |-> listeners, genCount |-> genCount]

\* _getTargetId that generates an identifier without setting it on the
\* element
GetTargetIdNoStamp(m, ref) ==
  IF ref.k = "str" THEN [m |-> m, id |-> ref]
  ELSE IF ref.k = "el" THEN
    IF m.dom[ref.v].ident # "" THEN [m |-> m, id |-> StrRef(m.dom[ref.v].ident)]
    ELSE IF NativeId(ref.v) # "" THEN [m |-> m, id |-> StrRef(NativeId(ref.v))]
    ELSE [m |-> [m EXCEPT !.genCount = @ + 1],
          id |-> StrRef(GenerateId(m.genCount + 1))]
  ELSE [m |-> m, id |-> NilRef]

\* _getTargetId: the resolved identifier and the machine after the call
GetTargetId(m, ref) ==
  IF ref.k = "str" THEN [m |-> m, id |-> ref]
  ELSE IF ref.k = "el" THEN
    IF m.dom[ref.v].ident # "" THEN [m |-> m, id |-> StrRef(m.dom[ref.v].ident)]
    ELSE IF NativeId(ref.v) # "" THEN [m |-> m, id |-> StrRef(NativeId(ref.v))]
    ELSE LET g == GenerateId(m.genCount + 1)
         IN [m |-> [m EXCEPT !.genCount = @ + 1, !.dom[ref.v].ident = g],
             id |-> StrRef(g)]
  ELSE [m |-> m, id |-> NilRef]

\* popups[targetId]: a registered instance, a property inherited from
\* Object.prototype (truthy, no Popup), or undefined
Lookup(m, key) ==
  IF key \in DOMAIN m.popups THEN [k |-> "inst", i |-> m.popups[key]]
  ELSE IF key \in InheritedKeys THEN [k |-> "inherited", i |-> 0]
  ELSE [k |-> "undef", i |-> 0]

----------------------------------------------------------------------------
(* Popup methods; each gives the machine after the call and whether the    *)
(* call raised (a TypeError on this.triggers[0] being undefined)           *)

\* show() that flips the state instead of returning when already visible
ShowAsToggle(m, i) ==
  LET p == m.insts[i] IN
  IF m.dom[p.popup].hidden = "false"
  THEN [m |-> [m EXCEPT !.dom[p.popup].hidden = "true",
                        !.dom[p.popup].classes = @ \ {p.openClass}],
        threw |-> FALSE]
  ELSE [m |-> [m EXCEPT !.dom[p.popup].hidden = "false",
                        !.dom[p.popup].classes = @ \cup {p.openClass}],
        threw |-> FALSE]

PopupShow(m, i) ==
  LET p == m.insts[i] IN
  IF m.dom[p.popup].hidden = "false" THEN [m |-> m, threw |-> FALSE]
  ELSE LET m1 == [m EXCEPT !.dom[p.popup].hidden = "false"] IN
    IF p.triggers = <<>> THEN [m |-> m1, threw |-> TRUE]
    ELSE LET m2 == [m1 EXCEPT !.dom[p.triggers[1]].expanded = "true"]
         IN [m |-> [m2 EXCEPT !.dom[p.popup].classes = @ \cup {p.openClass}],
             threw |-> FALSE]

\* hide() that leaves the open class on the display element
HideKeepsClass(m, i) ==
  LET p == m.insts[i] IN
  IF m.dom[p.popup].hidden = "true" THEN [m |-> m, threw |-> FALSE]
  ELSE LET m1 == [m EXCEPT !.dom[p.popup].hidden = "true"] IN
    IF p.triggers = <<>> THEN [m |-> m1, threw |-> TRUE]
    ELSE [m |-> [m1 EXCEPT !.dom[p.triggers[1]].expanded = "false"],
          threw |-> FALSE]

PopupHide(m, i) ==
  LET p == m.insts[i] IN
  IF m.dom[p.popup].hidden = "true" THEN [m |-> m, threw |-> FALSE]
  ELSE LET m1 == [m EXCEPT !.dom[p.popup].hidden = "true"] IN
    IF p.triggers = <<>> THEN [m |-> m1, threw |-> TRUE]
    ELSE LET m2 == [m1 EXCEPT !.dom[p.triggers[1]].expanded = "false"]
         IN [m |-> [m2 EXCEPT !.dom[p.popup].classes = @ \ {p.openClass}],
             threw |-> FALSE]

PopupToggle(m, i) ==
  IF m.dom[m.insts[i].popup].hidden = "true" THEN PopupShow(m, i)
  ELSE PopupHide(m, i)

\* fn.call(instance) for one of the bound methods
Method(m, i, fn) ==
  CASE fn = "show" -> PopupShow(m, i)
    [] fn = "hide" -> PopupHide(m, i)
    [] OTHER -> PopupToggle(m, i)

----------------------------------------------------------------------------
(* Popup construction.  A constructor gives ok, the error raised when not  *)
(* ok, and the machine after it: the new instance is the last of m.insts.  *)

Undef == [k |-> "undef", i |-> 0]

\* role is options.role, triggerRole the role of the triggerConfigs
NewInst(el, cfg, openClass, triggerRole) ==
  [popup |-> el, triggers |-> cfg.triggers, openClass |-> openClass,
   role |-> cfg.role, triggerRole |-> triggerRole]

\* the three accessibility attributes _init sets on the display element
SetAria(m, el) ==
  [m EXCEPT !.dom[el].haspopup = "true",
            !.dom[el].expanded = "false",
            !.dom[el].hidden = "true"]

\* trigger.addEventListener(ev, this[fn]): the same bound function is
\* registered on an element at most once
AddListener(ls, l) ==
  IF \E k \in 1..Len(ls) : ls[k] = l THEN ls ELSE Append(ls, l)

TooltipListeners(ls, t, i) ==
  LET l(ev, fn) == [el |-> t, ev |-> ev, inst |-> i, fn |-> fn]
  IN AddListener(AddListener(AddListener(AddListener(ls,
       l("mouseenter", "show")), l("focus", "show")),
       l("mouseleave", "hide")), l("blur", "hide"))

\* the forEach over triggerConfigs of _init (0.2.0)
RECURSIVE AttachTriggers(_, _, _, _, _)
AttachTriggers(m, el, trigs, role, i) ==
  IF trigs = <<>> THEN m
  ELSE LET t == Head(trigs)
           m1 == IF role = "tooltip"
                 THEN [m EXCEPT !.dom[el].role = "tooltip",
                                !.listeners = TooltipListeners(@, t, i)]
                 ELSE IF role = "dialog"
                 THEN [m EXCEPT !.dom[el].role = "dialog",
                                !.listeners = AddListener(@,
                                  [el |-> t, ev |-> "click", inst |-> i,
                                   fn |-> "toggle"])]
                 ELSE m
       IN AttachTriggers(m1, el, Tail(trigs), role, i)

\* _init of 0.1.0 and 0.1.1; a missing display element raises a TypeError
\* at the first setAttribute
Init01(m, el, cfg, openClass) ==
  IF el = NoElem THEN [ok |-> FALSE, err |-> "TypeError", m |-> m]
  ELSE [ok |-> TRUE, err |-> "",
        m |-> [SetAria(m, el) EXCEPT
                 !.insts = Append(@, NewInst(el, cfg, openClass, ""))]]

\* _init of 0.2.0
Init02(m, el, cfg, openClass, role) ==
  IF el = NoElem THEN [ok |-> FALSE, err |-> "TypeError", m |-> m]
  ELSE LET m1 == [SetAria(m, el) EXCEPT
                    !.insts = Append(@, NewInst(el, cfg, openClass, role))]
       IN [ok |-> TRUE, err |-> "",
           m |-> AttachTriggers(m1, el, cfg.triggers, role, Len(m1.insts))]

\* the element a given popup reference stands for
ResolvePopup(ref) == IF ref.k = "str" THEN GetElementById(ref.v) ELSE ref.v

\* constructor of 0.1.0
Construct010(m, cfg, openClass) ==
  Init01(m, IF Falsy(cfg.popup) THEN NoElem ELSE ResolvePopup(cfg.popup),
         cfg, openClass)

\* constructor of 0.1.1
Construct011(m, cfg, openClass) ==
  IF Falsy(cfg.popup) THEN [ok |-> FALSE, err |-> "Configuration", m |-> m]
  ELSE IF ResolvePopup(cfg.popup) = NoElem
  THEN [ok |-> FALSE, err |-> "ElementNotFound", m |-> m]
  ELSE Init01(m, ResolvePopup(cfg.popup), cfg, openClass)

\* constructor of 0.2.0
Construct020(m, cfg, openClass) ==
  IF ~Falsy(cfg.popup)
  THEN Init02(m, ResolvePopup(cfg.popup), cfg, openClass, cfg.role)
  ELSE IF cfg.triggers = <<>>
  THEN [ok |-> FALSE, err |-> "Configuration", m |-> m]
  ELSE IF cfg.role = "" /\ ~markup[cfg.triggers[1]].hasDecl
  THEN [ok |-> FALSE, err |-> "TypeError", m |-> m]
  ELSE LET first == cfg.triggers[1]
           derivedRole == IF cfg.role # "" THEN cfg.role
                          ELSE FirstToken(markup[first].decl)
           idFromTrigger == RoleTarget(m, first, derivedRole)
       IN IF derivedRole = "" \/ idFromTrigger = ""
          THEN [ok |-> FALSE, err |-> "Configuration", m |-> m]
          ELSE Init02(m, GetElementById(idFromTrigger), cfg, openClass,
                      derivedRole)

Construct(m, cfg, openClass) ==
  CASE version = "0.1.0" -> Construct010(m, cfg, openClass)
    [] version = "0.1.1" -> Construct011(m, cfg, openClass)
    [] OTHER -> Construct020(m, cfg, openClass)

----------------------------------------------------------------------------
(* The registry operations *)

\* what initPopup returns when the identifier is taken
Existing(found) == IF version = "0.1.0" THEN Undef ELSE found

\* a registration that replaces the registry by the new entry
RegisterAlone(m, key) ==
  LET n == Len(m.insts)
  IN [m EXCEPT !.popups = (key :> n),
               !.dom[m.insts[n].popup].ident = key]

\* popups[targetId] = new Popup(...), then the identifier attribute is set
\* on the display element
Register(m, key) ==
  LET n == Len(m.insts)
  IN [m EXCEPT !.popups = (key :> n) @@ @,
               !.dom[m.insts[n].popup].ident = key]

\* initPopup that enters the identifier in the registry before the
\* construction has succeeded
InitPopupEager(m, cfg) ==
  LET openClass == IF cfg.openClass = "" THEN DefaultOpenClass
                   ELSE cfg.openClass
      r == IF cfg.targetPopupId = "" THEN GetTargetId(m, cfg.popup)
           ELSE [m |-> m, id |-> StrRef(cfg.targetPopupId)]
      key == KeyOf(r.id)
      found == Lookup(r.m, key)
  IN IF found.k # "undef"
     THEN [m |-> r.m, threw |-> FALSE, err |-> "", key |-> key,
           ret |-> Existing(found)]
     ELSE LET c == Construct(r.m, cfg, openClass)
          IN IF ~c.ok
             THEN [m |-> [c.m EXCEPT !.popups = @ @@ (key :> Len(c.m.insts))],
                   threw |-> TRUE, err |-> c.err, key |-> key, ret |-> Undef]
             ELSE [m |-> Register(c.m, key), threw |-> FALSE, err |-> "",
                   key |-> key,
                   ret |-> [k |-> "inst", i |-> Len(c.m.insts)]]

InitPopup(m, cfg) ==
  LET openClass == IF cfg.openClass = "" THEN DefaultOpenClass
                   ELSE cfg.openClass
      r == IF cfg.targetPopupId = "" THEN GetTargetId(m, cfg.popup)
           ELSE [m |-> m, id |-> StrRef(cfg.targetPopupId)]
      key == KeyOf(r.id)
      found == Lookup(r.m, key)
  IN IF found.k # "undef"
     THEN [m |-> r.m, threw |-> FALSE, err |-> "", key |-> key,
           ret |-> Existing(found)]
     ELSE LET c == Construct(r.m, cfg, openClass)
          IN IF ~c.ok
             THEN [m |-> c.m, threw |-> TRUE, err |-> c.err, key |-> key,
                   ret |-> Undef]
             ELSE [m |-> Register(c.m, key), threw |-> FALSE, err |-> "",
                   key |-> key,
                   ret |-> [k |-> "inst", i |-> Len(c.m.insts)]]

\* the (trigger, role token) pairs of the document, in the order init
\* visits them
RECURSIVE PairsOf(_, _)
PairsOf(t, decl) ==
  IF decl = <<>> THEN <<>>
  ELSE <<[t |-> t, role |-> Head(decl)]>> \o PairsOf(t, Tail(decl))

RECURSIVE DeclaredPairs(_)
DeclaredPairs(els) ==
  IF els = <<>> THEN <<>>
  ELSE (IF markup[Head(els)].hasDecl
        THEN PairsOf(Head(els), markup[Head(els)].decl) ELSE <<>>)
       \o DeclaredPairs(Tail(els))

InitConfig(m, p) ==
  [popup |-> StrRef(RoleTarget(m, p.t, p.role)), triggers |-> <<p.t>>,
   role |-> p.role, openClass |-> "", targetPopupId |-> ""]

\* init: an exception of initPopup ends the scan
RECURSIVE RunInit(_, _)
RunInit(m, pairs) ==
  IF pairs = <<>> THEN [m |-> m, threw |-> FALSE, err |-> ""]
  ELSE IF RoleTarget(m, Head(pairs).t, Head(pairs).role) = ""
  THEN RunInit(m, Tail(pairs))
  ELSE LET r == InitPopup(m, InitConfig(m, Head(pairs)))
       IN IF r.threw THEN [m |-> r.m, threw |-> TRUE, err |-> r.err]
          ELSE RunInit(r.m, Tail(pairs))

\* show(ref), hide(ref), toggle(ref)
RegCall(m, ref, fn) ==
  LET r == GetTargetId(m, ref)
      found == Lookup(r.m, KeyOf(r.id))
  IN IF found.k = "inst"
     THEN LET s == Method(r.m, found.i, fn)
          IN [m |-> s.m, threw |-> s.threw, inst |-> found.i]
     ELSE IF found.k = "inherited"
     THEN [m |-> r.m, threw |-> TRUE, inst |-> 0]
     ELSE [m |-> r.m, threw |-> FALSE, inst |-> 0]

\* an event ev on element el runs its listeners in registration order;
\* toggle, given the event, suppresses its default action
RECURSIVE Dispatch(_, _, _, _)
Dispatch(m, ls, el, ev) ==
  IF ls = <<>> THEN [m |-> m, prevented |-> FALSE]
  ELSE IF Head(ls).el = el /\ Head(ls).ev = ev
  THEN LET s == Method(m, Head(ls).inst, Head(ls).fn)
           rest == Dispatch(s.m, Tail(ls), el, ev)
       IN [m |-> rest.m,
           prevented |-> rest.prevented \/ Head(ls).fn = "toggle"]
  ELSE Dispatch(m, Tail(ls), el, ev)

----------------------------------------------------------------------------
(* Inputs *)

NoTargets == [r \in RoleTokens |-> ""]
NoDecl == [hasDecl |-> FALSE, decl |-> <<>>, target |-> NoTargets]
Decl(tokens, targets) ==
  [hasDecl |-> TRUE, decl |-> tokens, target |-> targets @@ NoTargets]

\* the declarations of the first trigger: a token without target, a
\* target that does not exist, the target the second trigger also names,
\* a role without listeners, a dialog for the element the second names
B0NoTarget == Decl(<<"menu">>, NoTargets)
B0Missing == Decl(<<"dialog">>, "dialog" :> "nope")
B0Shared == Decl(<<"tooltip">>, "tooltip" :> "tip1")
B0Menu == Decl(<<"menu">>, "menu" :> "dlg1")
B0Dialog == Decl(<<"dialog">>, "dialog" :> "tip1")

\* the second trigger declares "tooltip dialog"; d is its dialog target
B1Both(d) ==
  Decl(<<"tooltip", "dialog">>, ("tooltip" :> "tip1") @@ ("dialog" :> d))

CleanEl ==
  [ident |-> "", hidden |-> "", expanded |-> "", haspopup |-> "",
   role |-> "", classes |-> {}]

\* the markup of an element that is authored open
OpenEl == [CleanEl EXCEPT !.hidden = "false", !.classes = {"is-open"}]

\* the documents the library is loaded in
PlainDocument ==
  [b0 |-> B0NoTarget, b1 |-> B1Both("dlg1"), tip1 |-> CleanEl]
Documents ==
  { PlainDocument,
    [b0 |-> B0NoTarget, b1 |-> B1Both("tip1"), tip1 |-> CleanEl],
    [b0 |-> B0Shared, b1 |-> B1Both("dlg1"), tip1 |-> CleanEl],
    [b0 |-> B0Missing, b1 |-> B1Both("dlg1"), tip1 |-> CleanEl],
    [b0 |-> B0Menu, b1 |-> B1Both("dlg1"), tip1 |-> CleanEl],
    [b0 |-> B0Dialog, b1 |-> B1Both("tip1"), tip1 |-> CleanEl],
    [b0 |-> B0NoTarget, b1 |-> B1Both("dlg1"), tip1 |-> OpenEl] }

Config(popup, triggers, role, openClass, targetPopupId) ==
  [popup |-> popup, triggers |-> triggers, role |-> role,
   openClass |-> openClass, targetPopupId |-> targetPopupId]

\* the configurations initPopup is called with; one names its identifier
\* itself, in the format of the generated ones
Configs ==
  << Config(ElRef("tip1"), <<>>, "", "", ""),
     Config(StrRef("nope"), <<"b0">>, "", "", ""),
     Config(NilRef, <<>>, "", "", ""),
     Config(NilRef, <<"b1">>, "", "", ""),
     Config(NilRef, <<"anon">>, "", "", ""),
     Config(ElRef("tip1"), <<"b0">>, "dialog", "", "micropop-1"),
     Config(ElRef("anon"), <<"b1">>, "tooltip", "", ""),
     Config(StrRef("dlg1"), <<"b0">>, "", "", "") >>

\* the references show, hide and toggle are called with
Refs ==
  { StrRef("tip1"), StrRef("nope"), StrRef("constructor"),
    ElRef("tip1"), ElRef("anon"), NilRef }

\* the elements the user interacts with
Triggers == {"b0", "b1"}
Events == {"mouseenter", "focus", "mouseleave", "blur", "click"}
Fns == {"show", "hide", "toggle"}

----------------------------------------------------------------------------
(* The state machine *)

\* the last call made: its name and the error it raised ("" = none)
NoCall == [op |-> "none", err |-> ""]
Called(op, err) == [op |-> op, err |-> err]

\* the error a Popup method raises: this.triggers[0] is undefined
MethodErr(r) == IF r.threw THEN "TypeError" ELSE ""

Init ==
  /\ version \in Versions
  /\ \E d \in Documents :
       /\ version # "0.2.0" => d = PlainDocument
       /\ markup = [e \in Elems |->
                      IF e = "b0" THEN d.b0 ELSE IF e = "b1" THEN d.b1
                      ELSE NoDecl]
       /\ dom = [e \in Elems |-> IF e = "tip1" THEN d.tip1 ELSE CleanEl]
  /\ insts = <<>>
  /\ popups = [k \in {} |-> 0]
  /\ listeners = <<>>
  /\ genCount = 0
  /\ last = NoCall

Apply(m) ==
  /\ dom' = m.dom
  /\ insts' = m.insts
  /\ popups' = m.popups
  /\ listeners' = m.listeners
  /\ genCount' = m.genCount
  /\ UNCHANGED <<version, markup>>

\* MicroPop.initPopup(config)
InitPopupCall ==
  \E c \in 1..Len(Configs) :
    LET r == InitPopup(Machine, Configs[c])
    IN /\ Len(r.m.insts) <= MaxPopups
       /\ Apply(r.m)
       /\ last' = Called("initPopup", r.err)

\* MicroPop.init()
InitCall ==
  /\ version = "0.2.0"
  /\ LET r == RunInit(Machine, DeclaredPairs(DocOrder))
     IN /\ Len(r.m.insts) <= MaxPopups
        /\ Apply(r.m)
        /\ last' = Called("init", r.err)

\* MicroPop.show(ref), MicroPop.hide(ref), MicroPop.toggle(ref)
RegistryCall ==
  \E ref \in Refs, fn \in Fns :
    LET r == RegCall(Machine, ref, fn)
    IN /\ Apply(r.m)
       /\ last' = Called(fn, MethodErr(r))

\* show(), hide(), toggle() on an instance initPopup returned
InstanceCall ==
  \E i \in 1..Len(insts), fn \in Fns :
    LET r == Method(Machine, i, fn)
    IN /\ Apply(r.m)
       /\ last' = Called(fn, MethodErr(r))

\* the user interacts with an element
TriggerEvent ==
  \E el \in Triggers, ev \in Events :
    LET r == Dispatch(Machine, listeners, el, ev)
    IN /\ Apply(r.m)
       /\ last' = Called("event", "")

Next ==
  \/ InitPopupCall
  \/ InitCall
  \/ RegistryCall
  \/ InstanceCall
  \/ TriggerEvent

Spec == Init /\ [][Next]_vars

----------------------------------------------------------------------------
(* Properties *)

Range(f) == {f[x] : x \in DOMAIN f}

\* the instances the registry holds
Registered == Range(popups)

Hidden(m, i) == m.dom[m.insts[i].popup].hidden
HasOpenClass(m, i) ==
  m.insts[i].openClass \in m.dom[m.insts[i].popup].classes

\* the reference resolves to a registered Popup
Resolves(ref) ==
  LET g == GetTargetId(Machine, ref)
  IN Lookup(g.m, KeyOf(g.id)).k = "inst"

\* the configurations init hands to initPopup in the current document
InitConfigs ==
  LET pairs == DeclaredPairs(DocOrder)
  IN { InitConfig(Machine, pairs[k]) :
         k \in {j \in 1..Len(pairs) :
                  RoleTarget(Machine, pairs[j].t, pairs[j].role) # ""} }

AllConfigs == Range(Configs) \cup InitConfigs

\* C1: for every registered Popup the display element's hidden attribute
\* is 'false' exactly when the open class is on it, and toggle() flips the
\* two together.
C1_LockStep ==
  \A i \in Registered :
    /\ Hidden(Machine, i) = "false" <=> HasOpenClass(Machine, i)
    /\ LET t == PopupToggle(Machine, i).m
       IN /\ Hidden(t, i) # Hidden(Machine, i)
          /\ HasOpenClass(t, i) # HasOpenClass(Machine, i)

\* C2: show, hide and toggle on a registered Popup, called on the instance
\* or through the registry by id or element, never raise.
C2_NeverRaises ==
  \A fn \in Fns :
    /\ \A i \in Registered : ~Method(Machine, i, fn).threw
    /\ \A ref \in Refs : Resolves(ref) => ~RegCall(Machine, ref, fn).threw

\* C3: show, hide and toggle with a reference that resolves to no
\* registered Popup do not raise and leave every element and the registry
\* as they were.
C3_UnresolvedNoEffect ==
  \A ref \in Refs, fn \in Fns :
    ~Resolves(ref) =>
      LET r == RegCall(Machine, ref, fn)
      IN ~r.threw /\ r.m.dom = dom /\ r.m.popups = popups

\* C4: right after a successful construction the display element has
\* hidden=true, has-popup=true, expanded=false and no open class.
C4_AfterConstruction ==
  [][Len(insts') = Len(insts) + 1 =>
       LET p == insts'[Len(insts')]
       IN /\ dom'[p.popup].hidden = "true"
          /\ dom'[p.popup].haspopup = "true"
          /\ dom'[p.popup].expanded = "false"
          /\ p.openClass \notin dom'[p.popup].classes]_vars

\* every declared pair with a target is registered: init has been through
\* the document
Discovered == \A c \in InitConfigs : c.popup.v \in DOMAIN popups

\* C5: initPopup with a configuration that resolves to a registered
\* identifier returns the registered instance, constructs nothing and adds
\* no listener; so does init on a document it has been through.
C5_SecondInit ==
  /\ \A cfg \in AllConfigs :
       LET r == InitPopup(Machine, cfg)
       IN r.key \in DOMAIN popups =>
            /\ r.ret = [k |-> "inst", i |-> popups[r.key]]
            /\ r.m.insts = insts
            /\ r.m.listeners = listeners
  /\ version = "0.2.0" /\ Discovered =>
       LET r == RunInit(Machine, DeclaredPairs(DocOrder))
       IN r.m.insts = insts /\ r.m.listeners = listeners

\* a registered Popup of the given role on the given element with the one
\* trigger t
PopupFor(t, role, el) ==
  {i \in Registered :
     /\ insts[i].role = role
     /\ insts[i].popup = el
     /\ \E k \in 1..Len(insts[i].triggers) : insts[i].triggers[k] = t}

\* C6: after init, a trigger declaring "tooltip dialog" with both targets
\* naming existing elements has two distinct Popups, a tooltip on the
\* tooltip target and a dialog on the dialog target.
C6_TwoRoles ==
  last.op = "init" /\ last.err = "" =>
    \A t \in Elems :
      (/\ markup[t].hasDecl
       /\ markup[t].decl = <<"tooltip", "dialog">>
       /\ GetElementById(markup[t].target["tooltip"]) # NoElem
       /\ GetElementById(markup[t].target["dialog"]) # NoElem)
      => \E i \in PopupFor(t, "tooltip",
                           GetElementById(markup[t].target["tooltip"])),
            j \in PopupFor(t, "dialog",
                           GetElementById(markup[t].target["dialog"])) :
           i # j

\* C7: after init, every declared (trigger, role) pair whose target names
\* an existing element has a Popup of that role on that target with that
\* trigger.
C7_OnePopupPerPair ==
  last.op = "init" /\ last.err = "" =>
    \A t \in Elems, role \in RoleTokens :
      (/\ markup[t].hasDecl
       /\ \E k \in 1..Len(markup[t].decl) : markup[t].decl[k] = role
       /\ GetElementById(markup[t].target[role]) # NoElem)
      => PopupFor(t, role, GetElementById(markup[t].target[role])) # {}

\* what a call may change on the elements for a Popup: hidden and the
\* classes of its display element, expanded of its first trigger
Visibility(m) ==
  [e \in Elems |-> <<m.dom[e].hidden, m.dom[e].classes, m.dom[e].expanded>>]

\* C8: a second show() right after a show() changes nothing, and a second
\* hide() right after a hide() changes nothing, on the instance or through
\* the registry.
C8_Idempotent ==
  \A fn \in {"show", "hide"} :
    /\ \A i \in 1..Len(insts) :
         LET once == Method(Machine, i, fn).m
         IN Method(once, i, fn).m = once
    /\ \A ref \in Refs :
         LET once == RegCall(Machine, ref, fn).m
         IN Visibility(RegCall(once, ref, fn).m) = Visibility(once)

\* show() has made a Popup visible
C8_Witness ==
  /\ last.op = "show"
  /\ \E i \in Registered :
       /\ Hidden(Machine, i) = "false"
       /\ HasOpenClass(Machine, i)
       /\ insts[i].triggers # <<>>
       /\ dom[insts[i].triggers[1]].expanded = "true"

\* C9: an initPopup whose construction fails leaves the registry as it was.
C9_NoPartialRegistration ==
  \A cfg \in AllConfigs :
    LET r == InitPopup(Machine, cfg)
    IN r.threw => r.m.popups = popups

\* a construction has failed with Popups registered
C9_Witness ==
  /\ last.op = "initPopup"
  /\ last.err # ""
  /\ DOMAIN popups # {}

\* C10: a display-element reference that is a string matching no element
\* fails the construction at once with an element-not-found error, no
\* attribute set and no listener attached.
C10_FailsImmediately ==
  \A cfg \in AllConfigs :
    LET r == InitPopup(Machine, cfg)
    IN (/\ cfg.popup.k = "str"
        /\ cfg.popup.v # ""
        /\ GetElementById(cfg.popup.v) = NoElem
        /\ Lookup(Machine, r.key).k = "undef")
       => /\ r.threw
          /\ r.err = "ElementNotFound"
          /\ r.m.dom = dom
          /\ r.m.listeners = listeners

\* every value _getTargetId may be given: the strings and the nil value of
\* the calls, and every element of the document
AnyRefs == Refs \cup {ElRef(e) : e \in Elems}

\* the element has neither an identifier attribute nor a native id
Unidentified(m, e) == m.dom[e].ident = "" /\ NativeId(e) = ""

\* C11: _getTargetId on an element without identifier attribute and native
\* id, then on any other reference, then on the element again gives the
\* same synthesized id both times, and only the first call advances the
\* counter.
C11_SameSynthesizedId ==
  \A e \in Elems : Unidentified(Machine, e) =>
    \A other \in AnyRefs \ {ElRef(e)} :
      LET first == GetTargetId(Machine, ElRef(e))
          between == GetTargetId(first.m, other)
          second == GetTargetId(between.m, ElRef(e))
      IN /\ first.id = StrRef(GenerateId(genCount + 1))
         /\ first.m.genCount = genCount + 1
         /\ second.id = first.id
         /\ second.m.genCount = between.m.genCount

\* an element without native id carries a synthesized id after a call
\* that resolved it, while another element is still unidentified
C11_Witness ==
  /\ last.op \in Fns
  /\ genCount = 1
  /\ dom["anon"].ident = GenerateId(1)
  /\ \E e \in Elems : Unidentified(Machine, e)

\* the identifiers generateId has handed out
Synthesized(m) == {GenerateId(n) : n \in 1..m.genCount}

\* C12: _getTargetId returns a string unchanged; for an element the
\* identifier attribute, else the native id, else a new 'micropop-<n>' that
\* differs from every id synthesized before and from every key of the
\* registry; for anything else null.
C12_ResolveIdentifier ==
  \A ref \in AnyRefs :
    LET r == GetTargetId(Machine, ref)
    IN CASE ref.k = "str" -> r.id = ref
         [] ref.k = "nil" -> r.id = NilRef
         [] OTHER ->
              IF dom[ref.v].ident # "" THEN r.id = StrRef(dom[ref.v].ident)
              ELSE IF NativeId(ref.v) # ""
              THEN r.id = StrRef(NativeId(ref.v))
              ELSE /\ r.id = StrRef(GenerateId(genCount + 1))
                   /\ r.id.v \notin Synthesized(Machine)
                   /\ r.id.v \notin DOMAIN popups

\* a trigger of the document declares a tooltip for the element tip1
DeclaresTooltip(t) ==
  /\ markup[t].hasDecl
  /\ "tooltip" \in Range(markup[t].decl)
  /\ markup[t].target["tooltip"] = "tip1"

\* every target the document declares exists
TargetsExist ==
  \A t \in Triggers, role \in RoleTokens :
    markup[t].target[role] # "" =>
      GetElementById(markup[t].target[role]) # NoElem

\* C13: in a document where a trigger declares a tooltip for 'tip1' and
\* the element tip1 exists, init registers a Popup under 'tip1'; show('tip1')
\* then sets hidden to 'false' and adds the open class, and the following
\* hide('tip1') sets hidden to 'true' and removes the open class.
C13_TooltipScenario ==
  ( /\ version = "0.2.0"
    /\ "tip1" \notin DOMAIN popups
    /\ TargetsExist
    /\ \E t \in Triggers : DeclaresTooltip(t) )
  => LET a == RunInit(Machine, DeclaredPairs(DocOrder))
         s == RegCall(a.m, StrRef("tip1"), "show")
         h == RegCall(s.m, StrRef("tip1"), "hide")
     IN /\ ~a.threw
        /\ "tip1" \in DOMAIN a.m.popups
        /\ a.m.insts[a.m.popups["tip1"]].popup = "tip1"
        /\ ~s.threw
        /\ s.m.dom["tip1"].hidden = "false"
        /\ HasOpenClass(s.m, s.inst)
        /\ ~h.threw
        /\ h.m.dom["tip1"].hidden = "true"
        /\ ~HasOpenClass(h.m, h.inst)

\* hide('tip1') has closed the tooltip init registered and show('tip1') opened
C13_Witness ==
  /\ last.op = "hide"
  /\ \E t \in Triggers : DeclaresTooltip(t)
  /\ "tip1" \in DOMAIN popups
  /\ LET p == insts[popups["tip1"]]
     IN /\ p.popup = "tip1"
        /\ Len(p.triggers) = 1
        /\ dom[p.triggers[1]].expanded = "false"
        /\ dom["tip1"].hidden = "true"
        /\ p.openClass \notin dom["tip1"].classes

\* what show, hide and toggle keep for the Popup j: hidden and the open
\* class of its display element, expanded of its first trigger
StateOf(m, j) ==
  <<Hidden(m, j), HasOpenClass(m, j),
    IF m.insts[j].triggers = <<>> THEN Undef
    ELSE m.dom[m.insts[j].triggers[1]].expanded>>

\* C14: show, hide or toggle on one registered Popup leaves the state of
\* every other registered Popup unchanged, also when the two share a
\* trigger or a display element.
C14_OnlyOwnState ==
  \A i \in Registered, fn \in Fns :
    LET r == Method(Machine, i, fn)
    IN \A j \in Registered \ {i} : StateOf(r.m, j) = StateOf(Machine, j)

\* C15: the registry only grows: a step removes no key, and an identifier
\* that maps to a Popup instance maps to the same instance after the step.
C15_RegistryGrows ==
  [][\A k \in DOMAIN popups :
       /\ k \in DOMAIN popups'
       /\ popups'[k] = popups[k]
       /\ popups[k] \in 1..Len(insts')
       /\ insts'[popups[k]] = insts[popups[k]]]_vars

\* two Popups are registered and calls have followed the registrations
C15_Witness ==
  /\ Cardinality(DOMAIN popups) = 2
  /\ Cardinality(Registered) = 2
  /\ last.op \in Fns \cup {"event"}

\* C16: an event on a trigger of a Popup acts by the role of the trigger:
\* for tooltip, mouseenter and focus make the Popup visible, mouseleave and
\* blur make it hidden; for dialog, a click flips the visibility and
\* suppresses the default action; for any other or no role, no event
\* changes the Popup's visibility.
C16_EventsByRole ==
  \A i \in 1..Len(insts) :
    \A k \in 1..Len(insts[i].triggers), ev \in Events :
      LET r == Dispatch(Machine, listeners, insts[i].triggers[k], ev)
      IN CASE insts[i].triggerRole = "tooltip" ->
                /\ ev \in {"mouseenter", "focus"} => Hidden(r.m, i) = "false"
                /\ ev \in {"mouseleave", "blur"} => Hidden(r.m, i) = "true"
           [] insts[i].triggerRole = "dialog" ->
                ev = "click" =>
                  /\ Hidden(r.m, i) # Hidden(Machine, i)
                  /\ Hidden(r.m, i) \in {"true", "false"}
                  /\ r.prevented
           [] OTHER ->
                /\ Hidden(r.m, i) = Hidden(Machine, i)
                /\ HasOpenClass(r.m, i) = HasOpenClass(Machine, i)

\* the configurations without display element: one trigger, a role or none
DerivedConfigs ==
  { Config(NilRef, <<t>>, role, "", "") :
      t \in Triggers, role \in RoleTokens \cup {""} }

\* the element the constructor derives from the first trigger of cfg
DerivedTarget(cfg) ==
  LET first == cfg.triggers[1]
      derivedRole == IF cfg.role # "" THEN cfg.role
                     ELSE FirstToken(markup[first].decl)
  IN GetElementById(RoleTarget(Machine, first, derivedRole))

\* C17: two initPopup calls without display element, whose triggers name
\* two different existing elements, give two distinct Popups, each
\* registered under the identifier of its target and holding its target as
\* display element.
C17_DerivedPopups ==
  version = "0.2.0" =>
    \A c1, c2 \in DerivedConfigs :
      LET e1 == DerivedTarget(c1)
          e2 == DerivedTarget(c2)
          a == InitPopup(Machine, c1)
          b == InitPopup(a.m, c2)
      IN (e1 # NoElem /\ e2 # NoElem /\ e1 # e2) =>
           /\ a.ret.k = "inst" /\ b.ret.k = "inst"
           /\ a.ret.i # b.ret.i
           /\ b.m.insts[a.ret.i].popup = e1
           /\ b.m.insts[b.ret.i].popup = e2
           /\ Lookup(b.m, NativeId(e1)) = a.ret
           /\ Lookup(b.m, NativeId(e2)) = b.ret

\* C18: for every entry id -> Popup of the registry the display element
\* of the Popup carries the identifier attribute id, so that a call given
\* the display element reaches the Popup the call given id reaches.
C18_StampedIdentifier ==
  \A k \in DOMAIN popups :
    LET el == insts[popups[k]].popup
    IN /\ dom[el].ident = k
       /\ \A fn \in Fns :
            RegCall(Machine, ElRef(el), fn).inst = popups[k]

====
